---- MODULE Spec2Model ----
(***************************************************************************)
(* Model of the LLM call layer of the medical-note generator:              *)
(*   - Gemini._call_api_with_retry (backend/LLM/gemini.py): candidate      *)
(*     model sequence, per-model retry loop with back-off, fall-back on    *)
(*     rate limits;                                                        *)
(*   - the JSON-boundary extraction of generate_template_fields            *)
(*     (backend/template_generator.py) and generate_note_from_text         *)
(*     (backend/note_generator.py), and the results these, clean_text      *)
(*     (backend/text_cleaner.py) and transcribe_audio                      *)
(*     (backend/transcription.py) return;                                  *)
(*   - Gemini.gemini_transcribe: validation, upload, status polls, the     *)
(*     call of _call_api_with_retry, delete;                               *)
(*   - concurrent invocations of _call_api_with_retry on one Gemini        *)
(*     object.                                                             *)
(* Texts are sequences of one-character strings.  An error message is a    *)
(* sequence of tokens; a keyword occurs in a message when it is one of     *)
(* its tokens (tokens are chosen so that no keyword spans two of them).    *)
(***************************************************************************)
EXTENDS Integers, Sequences, FiniteSets, TLC

VARIABLES
    pc,             \* position of the request in _call_api_with_retry
    model,          \* argument model (the primary model)
    max_retries,    \* argument max_retries
    models_to_try,  \* local models_to_try
    idx,            \* 1-based position of model_name in models_to_try
    attempt,        \* local attempt of the inner loop
    retry_delay,    \* local retry_delay
    last_error,     \* local last_error (None or an error message)
    result,         \* terminal outcome of the request
    log,            \* remote calls and sleeps of the request, in order
    fn,             \* the generator that ran last: "template", "note" or ""
    generated_text, \* local generated_text (the model's output, stripped)
    json_text,      \* local json_text, the candidate cut out of generated_text
    parser_called,  \* whether json.loads was called on json_text
    parse_outcome,  \* what json.loads did: its verdict and its error message
    elapsed,        \* time the local model call took, in 1/100 s (<<>>: no call)
    jresult,        \* value the generator returned
    tpc,            \* position of gemini_transcribe
    audio,          \* the audio file at audio_file_path: whether it exists, its size
    tmodel,         \* argument model of gemini_transcribe ("" for None)
    remote_state,   \* state of the uploaded file at the remote service
    file_state,     \* local audio_file.state, as last observed
    tlog,           \* operations on the remote service issued by gemini_transcribe
    tresult,        \* local result of gemini_transcribe, returned when tpc = "done"
    gemini,         \* the Gemini object shared by concurrent requests
    creq,           \* concurrent _call_api_with_retry invocations: each one's locals
    cls,            \* an error handled by the except clause: the invocation before
                    \* the call, the message, the invocation after it
    scan,           \* a generated text and what generate_template_fields cut from it
    config,         \* the temperature and top_p arguments of a request and the
                    \* GenerateContentConfig its remote calls are made with
    store,          \* the rows of the templates table
    slog,           \* the calls made on the template store, with their inputs
    resp,           \* the last call on the template store and what it returned
    clock,          \* time.time() in whole seconds
    files,          \* the temporary audio files on disk: path -> content
    treq            \* the /transcribe-and-clean requests

retryVars == <<pc, model, max_retries, models_to_try, idx, attempt,
               retry_delay, last_error, result, log>>

jsonVars == <<fn, generated_text, json_text, parser_called, parse_outcome, elapsed, jresult>>

transVars == <<tpc, audio, tmodel, remote_state, file_state, tlog, tresult>>

concVars == <<gemini, creq>>

pureVars == <<cls, scan, config>>

storeVars == <<store, slog, resp>>

tempVars == <<clock, files, treq>>

moreVars == <<pureVars, storeVars, tempVars>>

vars == <<retryVars, jsonVars, transVars, concVars, moreVars>>

---------------------------------------------------------------------------
(* Bounds of the exploration *)

MaxRetries == 4

MaxTextLen == 3

MaxJsonLen == 4

\* status polls recorded one by one; further polls that see the same state
\* again are not told apart
MaxPolls == 2

\* largest max_retries of the concurrent invocations
MaxConcRetries == 2

---------------------------------------------------------------------------
(* Gemini: constants and pure helpers *)

FALLBACK_MODELS == <<"gemini-2.5-flash-lite", "gemini-2.5-flash", "gemini-3.0-flash">>

\* Primary models a caller may pass: each configured fallback and one
\* model that is not in the fallback list.
PrimaryModels == {"gemini-2.5-flash-lite", "gemini-2.5-flash", "gemini-3.0-flash",
                  "gemini-2.0-pro"}

None == <<>>

Range(s) == {s[i] : i \in 1..Len(s)}

\* str.lower() on the tokens that occur in the modelled messages; the
\* sentence that opens the aggregate error is taken to the keyword it contains
LowerToken(t) ==
    CASE t = "Quota" -> "quota"
      [] t = "Timeout" -> "timeout"
      [] t = "API rate limit exceeded on all models." -> "rate limit"
      [] OTHER -> t

Lower(msg) == [i \in 1..Len(msg) |-> LowerToken(msg[i])]

RateLimitKeywords == {"rate limit", "quota", "resource exhausted", "429", "too many requests"}

IsRateLimitError(error) ==
    \E keyword \in RateLimitKeywords : keyword \in Range(Lower(error))

IsNetworkError(error_msg) ==
    \/ "10013" \in Range(error_msg)
    \/ "11001" \in Range(error_msg)
    \/ "timeout" \in Range(Lower(error_msg))

RECURSIVE Filter(_, _)
Filter(s, m) ==
    IF s = <<>> THEN <<>>
    ELSE IF Head(s) # m THEN <<Head(s)>> \o Filter(Tail(s), m)
         ELSE Filter(Tail(s), m)

ModelsToTryNoFilter(m) == <<m>> \o FALLBACK_MODELS

ModelsToTry(m) == <<m>> \o Filter(FALLBACK_MODELS, m)

AggregateErrorFallbacksOnly(models) ==
    <<"API rate limit exceeded on all models.", "Models tried:">> \o FALLBACK_MODELS

AggregateError(models) ==
    <<"API rate limit exceeded on all models.", "Models tried:">> \o models

Whitespace == {" ", "\n"}

RECURSIVE LStrip(_)
LStrip(t) ==
    IF t # <<>> /\ Head(t) \in Whitespace THEN LStrip(Tail(t)) ELSE t

RECURSIVE RStrip(_)
RStrip(t) ==
    IF t # <<>> /\ t[Len(t)] \in Whitespace
    THEN RStrip(SubSeq(t, 1, Len(t) - 1))
    ELSE t

StripLeftOnly(t) == LStrip(t)

Strip(t) == RStrip(LStrip(t))

NextDelayLinear(d) == d + 2

OnErrorNetworkFirst(e, a, mr) ==
    IF IsNetworkError(e) /\ a < mr - 1 THEN "sleep"
    ELSE IF IsRateLimitError(e) THEN "break"
    ELSE "raise"

NextDelay(d) == d * 2

OnErrorRetryRateLimit(e, a, mr) ==
    IF (IsRateLimitError(e) \/ IsNetworkError(e)) /\ a < mr - 1 THEN "sleep"
    ELSE IF IsRateLimitError(e) THEN "break"
    ELSE "raise"

OnErrorRetryAll(e, a, mr) ==
    IF IsRateLimitError(e) THEN "break"
    ELSE IF a < mr - 1 THEN "sleep"
    ELSE "raise"

OnErrorSleepsOnLast(e, a, mr) ==
    IF IsRateLimitError(e) THEN "break"
    ELSE IF IsNetworkError(e) /\ a < mr THEN "sleep"
    ELSE "raise"

\* What the except clause does with an error raised in attempt a
OnError(e, a, mr) ==
    IF IsRateLimitError(e) THEN "break"
    ELSE IF IsNetworkError(e) /\ a < mr - 1 THEN "sleep"
    ELSE "raise"

Returned(text) == [kind |-> "returned", value |-> text, err |-> None]

Raised(e) == [kind |-> "raised", value |-> <<>>, err |-> e]

NoResult == [kind |-> "none", value |-> <<>>, err |-> None]

FallOffTheEnd(models) == NoResult

RaiseExhausted(models) == Raised(AggregateError(models))

---------------------------------------------------------------------------
(* Remote outcomes *)

TextChars == {" ", "a"}

Texts == UNION {[1..n -> TextChars] : n \in 0..MaxTextLen}

ErrorMessages ==
    { <<"Quota", "exceeded">>,          \* rate limit
      <<"429", "timeout">>,             \* rate limit and network words
      <<"Read", "Timeout">>,            \* network
      <<"400", "invalid argument">> }   \* neither

\* response.text is a str, or None when the response carries no text part
Outcomes ==
    [kind : {"ok"}, text : Texts, msg : {None}]
    \cup {[kind |-> "ok_none", text |-> <<>>, msg |-> None]}
    \cup [kind : {"error"}, text : {<<>>}, msg : ErrorMessages]

AttributeErrorMsg == <<"'NoneType' object has no attribute 'strip'">>

\* The exception the try block raises for a remote outcome (None: no exception)
ErrorOf(out) ==
    CASE out.kind = "ok" -> None
      [] out.kind = "ok_none" -> AttributeErrorMsg
      [] OTHER -> out.msg

CallEvent(m, out) == [op |-> "call", model |-> m, out |-> out, delay |-> 0]

SleepEvent(d) ==
    [op |-> "sleep", model |-> "", out |-> [kind |-> "", text |-> <<>>, msg |-> None],
     delay |-> d]

---------------------------------------------------------------------------
(* JSON-boundary extraction: pure helpers.  Positions are 1-based; 0 stands *)
(* for Python's -1 (not found).                                             *)

MIN_DOCUMENT_LEN == 50

JsonChars == {"{", "}", "a", " "}

JsonTexts == UNION {[1..n -> JsonChars] : n \in 0..MaxJsonLen}

\* str.find(c): position of the first c, 0 when there is none
RECURSIVE FindFrom(_, _, _)
FindFrom(t, c, i) ==
    IF i > Len(t) THEN 0
    ELSE IF t[i] = c THEN i
    ELSE FindFrom(t, c, i + 1)

Find(t, c) == FindFrom(t, c, 1)

\* str.rfind(c): position of the last c, 0 when there is none
RECURSIVE RFindFrom(_, _, _)
RFindFrom(t, c, i) ==
    IF i < 1 THEN 0
    ELSE IF t[i] = c THEN i
    ELSE RFindFrom(t, c, i - 1)

RFind(t, c) == RFindFrom(t, c, Len(t))

\* t[i] lies inside a quoted string: an odd number of quotes precedes it
InString(t, i) == Cardinality({k \in 1..(i - 1) : t[k] = "\""}) % 2 = 1

RECURSIVE ScanBracesOutsideStrings(_, _, _)
ScanBracesOutsideStrings(t, i, brace_count) ==
    IF i > Len(t) THEN 0
    ELSE IF t[i] = "{" /\ ~InString(t, i)
         THEN ScanBracesOutsideStrings(t, i + 1, brace_count + 1)
    ELSE IF t[i] = "}" /\ ~InString(t, i)
         THEN IF brace_count - 1 = 0 THEN i
              ELSE ScanBracesOutsideStrings(t, i + 1, brace_count - 1)
    ELSE ScanBracesOutsideStrings(t, i + 1, brace_count)

\* the brace-counting loop of generate_template_fields: end_idx, 0 when the
\* loop ends without brace_count returning to zero
RECURSIVE ScanBraces(_, _, _)
ScanBraces(t, i, brace_count) ==
    IF i > Len(t) THEN 0
    ELSE IF t[i] = "{" THEN ScanBraces(t, i + 1, brace_count + 1)
    ELSE IF t[i] = "}"
         THEN IF brace_count - 1 = 0 THEN i
              ELSE ScanBraces(t, i + 1, brace_count - 1)
    ELSE ScanBraces(t, i + 1, brace_count)

\* generate_template_fields, from find('{') to json_text
TemplateExtract(t) ==
    LET start_idx == Find(t, "{") IN
    IF start_idx = 0
    THEN [ok |-> FALSE, error |-> "No JSON found in model output", json_text |-> <<>>]
    ELSE LET end_idx == ScanBraces(t, start_idx, 0) IN
         IF end_idx = 0
         THEN [ok |-> FALSE, error |-> "No matching closing brace found in JSON",
               json_text |-> <<>>]
         ELSE [ok |-> TRUE, error |-> "", json_text |-> SubSeq(t, start_idx, end_idx)]

NoteExtractNoGuard(t) ==
    IF Find(t, "{") = 0 THEN <<>> ELSE SubSeq(t, Find(t, "{"), RFind(t, "}"))

\* generate_note_from_text, json_text from generated_text
NoteExtract(t) ==
    IF "{" \in Range(t)
    THEN LET start == Find(t, "{")
             end == RFind(t, "}")
         IN SubSeq(t, start, end)
    ELSE t

\* What json.loads may do with a candidate: it always may raise
\* JSONDecodeError; it can yield a dict only for a text that, whitespace
\* apart, opens with "{" and closes with "}"; it can yield another value
\* only for a non-empty text that does not open with "{".
ParseVerdicts(c) ==
    LET s == Strip(c) IN
    {"error"}
    \cup (IF Len(s) >= 2 /\ s[1] = "{" /\ s[Len(s)] = "}" THEN {"dict"} ELSE {})
    \cup (IF Len(s) >= 1 /\ s[1] # "{" THEN {"nondict"} ELSE {})

\* generated_text before the model has produced a text
NoText == <<"None">>

NoJsonResult ==
    [success |-> FALSE, error |-> "", keys |-> {}, payload |-> <<>>, raw_output |-> <<>>,
     parse_error |-> "", generation_time |-> <<>>]

\* str(e) of a JSONDecodeError
ParseMessages == {"Expecting value", "Extra data"}

NoParse == [verdict |-> "", msg |-> ""]

\* json.loads raises with one of the messages, or returns a value
ParseOutcomes(c) ==
    {[verdict |-> v, msg |-> m] : v \in ParseVerdicts(c) \ {"error"}, m \in {""}}
    \cup [verdict : {"error"}, msg : ParseMessages]

\* elapsed times of a model call, in 1/100 s
ElapsedTimes == {0, 125}

\* f"{elapsed:.2f}s": whole seconds, hundredths, unit
FormatElapsed(cs) == <<cs \div 100, cs % 100, "s">>

\* f"Failed to parse AI response: {str(e)}"
FailedToParse(msg) ==
    CASE msg = "Expecting value" -> "Failed to parse AI response: Expecting value"
      [] msg = "Extra data" -> "Failed to parse AI response: Extra data"
      [] OTHER -> "Failed to parse AI response: "

\* the dict {"success", "fields", "error"} of generate_template_fields
TemplateResult(ok, fields, error) ==
    [success |-> ok, error |-> error, keys |-> {"success", "fields", "error"},
     payload |-> fields, raw_output |-> <<>>, parse_error |-> "",
     generation_time |-> <<>>]

\* the dicts generate_note_from_text returns: {"error": ...}
NoteError(error) ==
    [success |-> FALSE, error |-> error, keys |-> {"error"}, payload |-> <<>>,
     raw_output |-> <<>>, parse_error |-> "", generation_time |-> <<>>]

NoteParseFailureErrorOnly(raw, msg, cs) == NoteError("Model did not return valid JSON")

\* ... the dict of the JSONDecodeError handler
NoteParseFailure(raw, msg, cs) ==
    [success |-> FALSE, error |-> "Model did not return valid JSON",
     keys |-> {"error", "raw_output", "parse_error", "_generation_time"},
     payload |-> <<>>, raw_output |-> raw, parse_error |-> msg,
     generation_time |-> FormatElapsed(cs)]

\* ... and the parsed note with its _generation_time (the dict has no
\* "success" key; success records that it is the note)
NoteSuccess(note, cs) ==
    [success |-> TRUE, error |-> "", keys |-> {"_generation_time"}, payload |-> note,
     raw_output |-> <<>>, parse_error |-> "", generation_time |-> FormatElapsed(cs)]

CleanResultNoError(ok, text, error) ==
    [success |-> ok, error |-> "", keys |-> {"success", "formatted_text"},
     payload |-> text, raw_output |-> <<>>, parse_error |-> "",
     generation_time |-> <<>>]

\* the dict {'success', 'formatted_text', 'error'} of clean_text
CleanResult(ok, text, error) ==
    [success |-> ok, error |-> error, keys |-> {"success", "formatted_text", "error"},
     payload |-> text, raw_output |-> <<>>, parse_error |-> "",
     generation_time |-> <<>>]

\* the dict of transcribe_audio
WhisperResult(ok, text, error) ==
    [success |-> ok, error |-> error,
     keys |-> {"success", "text", "segments", "duration", "language", "file_size_mb",
               "error"},
     payload |-> text, raw_output |-> <<>>, parse_error |-> "",
     generation_time |-> <<>>]

\* file_size / (1024 * 1024), as numerator and denominator
FileSizeMb(size) == <<size, 1024 * 1024>>

NoAudio == [exists |-> FALSE, size |-> 0]

\* the dict of gemini_transcribe with success False; error is str(e)
TranscribeFailure(size_mb, err) ==
    [success |-> FALSE, text |-> <<>>, file_size_mb |-> size_mb, error |-> err]

\* ... and after result.update({'success': True, 'text': transcribed_text})
TranscribeSuccess(size_mb, text) ==
    [success |-> TRUE, text |-> text, file_size_mb |-> size_mb, error |-> <<>>]

GEMINI_MODEL == "gemini-2.5-flash"

\* the fields of the Gemini object and of its class after __init__
GeminiObject ==
    [FALLBACK_MODELS |-> FALLBACK_MODELS,
     default_model |-> GEMINI_MODEL,
     transcription_model |-> "gemini-2.5-flash"]

\* the concurrent invocations
Requests == {1, 2}

\* the locals of an invocation that has not been called yet
IdleRequest ==
    [pc |-> "idle", model |-> "", max_retries |-> 0, models_to_try |-> <<>>, idx |-> 0,
     attempt |-> 0, retry_delay |-> 0, last_error |-> None, result |-> NoResult,
     log |-> <<>>]

NoScan == [text |-> NoText, ex |-> [ok |-> FALSE, error |-> "", json_text |-> <<>>]]

\* the requests to /transcribe-and-clean, each named by the audio it uploads
Uploads == {1, 2}

NoUpload == [pc |-> "idle", suffix |-> "", temp_audio |-> <<>>, transcribed |-> 0]

EmptyFields == [k \in {} |-> ""]

NoResponse == [op |-> "", name |-> "", before |-> {}, raised |-> FALSE, returned |-> FALSE,
               fields |-> EmptyFields, args |-> <<>>, steps |-> <<>>, error |-> ""]

NoConfig == [temperature_arg |-> None, top_p_arg |-> None, temperature |-> 0, top_p |-> 0,
             built |-> FALSE]

NoClass == [before |-> IdleRequest, msg |-> None, after |-> IdleRequest]

---------------------------------------------------------------------------
(* _call_api_with_retry *)

Init ==
    /\ pc = "idle"
    /\ model = ""
    /\ max_retries = 0
    /\ models_to_try = <<>>
    /\ idx = 0
    /\ attempt = 0
    /\ retry_delay = 0
    /\ last_error = None
    /\ result = NoResult
    /\ log = <<>>
    /\ fn = ""
    /\ generated_text = NoText
    /\ json_text = <<>>
    /\ parser_called = FALSE
    /\ parse_outcome = NoParse
    /\ elapsed = <<>>
    /\ jresult = NoJsonResult
    /\ tpc = "idle"
    /\ audio = NoAudio
    /\ tmodel = ""
    /\ remote_state = ""
    /\ file_state = ""
    /\ tlog = <<>>
    /\ tresult = TranscribeFailure(FileSizeMb(0), <<>>)
    /\ gemini = GeminiObject
    /\ creq = [i \in Requests |-> IdleRequest]
    /\ cls = NoClass
    /\ scan = NoScan
    /\ config = NoConfig
    /\ store = {}
    /\ slog = <<>>
    /\ resp = NoResponse
    /\ clock = 0
    /\ files = {}
    /\ treq = [r \in Uploads |-> NoUpload]

\* entry of _call_api_with_retry: models_to_try is built
StartRequest(m, mr) ==
    /\ model' = m
    /\ max_retries' = mr
    /\ models_to_try' = ModelsToTry(m)
    /\ idx' = 1
    /\ pc' = "for_model"
    /\ UNCHANGED <<attempt, retry_delay, last_error, result, log>>

CallApiWithRetry(m, mr) ==
    /\ pc = "idle"
    /\ StartRequest(m, mr)
    /\ UNCHANGED <<jsonVars, transVars, concVars, moreVars>>

ForModelKeepsDelay ==
    /\ pc = "for_model"
    /\ IF idx > Len(models_to_try)
       THEN /\ result' = RaiseExhausted(models_to_try)
            /\ pc' = "done"
            /\ UNCHANGED <<retry_delay, last_error, attempt>>
       ELSE /\ retry_delay' = IF idx = 1 THEN 2 ELSE retry_delay
            /\ last_error' = None
            /\ attempt' = 0
            /\ pc' = "attempt"
            /\ UNCHANGED result
    /\ UNCHANGED <<model, max_retries, models_to_try, idx, log>>
    /\ UNCHANGED <<jsonVars, transVars, concVars, moreVars>>

\* head of `for model_name in models_to_try`, and the raise after it
ForModel ==
    /\ pc = "for_model"
    /\ IF idx > Len(models_to_try)
       THEN /\ result' = RaiseExhausted(models_to_try)
            /\ pc' = "done"
            /\ UNCHANGED <<retry_delay, last_error, attempt>>
       ELSE /\ retry_delay' = 2
            /\ last_error' = None
            /\ attempt' = 0
            /\ pc' = "attempt"
            /\ UNCHANGED result
    /\ UNCHANGED <<model, max_retries, models_to_try, idx, log>>
    /\ UNCHANGED <<jsonVars, transVars, concVars, moreVars>>

\* `for attempt in range(max_retries)` has no iteration left
AttemptLoopExit ==
    /\ pc = "attempt"
    /\ attempt >= max_retries
    /\ pc' = "after_inner"
    /\ UNCHANGED <<model, max_retries, models_to_try, idx, attempt, retry_delay,
                   last_error, result, log>>
    /\ UNCHANGED <<jsonVars, transVars, concVars, moreVars>>

\* one iteration of the inner loop up to its return, break, sleep or raise
GenerateContent(out) ==
    /\ pc = "attempt"
    /\ attempt < max_retries
    /\ log' = Append(log, CallEvent(models_to_try[idx], out))
    /\ LET e == ErrorOf(out) IN
       IF e = None
       THEN /\ result' = Returned(Strip(out.text))
            /\ pc' = "done"
            /\ UNCHANGED last_error
       ELSE /\ last_error' = e
            /\ LET todo == OnError(e, attempt, max_retries) IN
               /\ pc' = CASE todo = "break" -> "after_inner"
                          [] todo = "sleep" -> "sleep"
                          [] OTHER -> "done"
               /\ result' = IF todo = "raise" THEN Raised(e) ELSE result
    /\ UNCHANGED <<model, max_retries, models_to_try, idx, attempt, retry_delay>>
    /\ UNCHANGED <<jsonVars, transVars, concVars, moreVars>>

\* time.sleep(retry_delay); retry_delay *= 2; continue
Sleep ==
    /\ pc = "sleep"
    /\ log' = Append(log, SleepEvent(retry_delay))
    /\ retry_delay' = NextDelay(retry_delay)
    /\ attempt' = attempt + 1
    /\ pc' = "attempt"
    /\ UNCHANGED <<model, max_retries, models_to_try, idx, last_error, result>>
    /\ UNCHANGED <<jsonVars, transVars, concVars, moreVars>>

AfterInnerSkipsCandidate ==
    /\ pc = "after_inner"
    /\ IF last_error # None /\ ~IsRateLimitError(last_error)
       THEN /\ result' = Raised(last_error)
            /\ pc' = "done"
            /\ UNCHANGED idx
       ELSE /\ idx' = idx + 2
            /\ pc' = "for_model"
            /\ UNCHANGED result
    /\ UNCHANGED <<model, max_retries, models_to_try, attempt, retry_delay,
                   last_error, log>>
    /\ UNCHANGED <<jsonVars, transVars, concVars, moreVars>>

\* `if last_error and not self._is_rate_limit_error(last_error): raise last_error`
AfterInner ==
    /\ pc = "after_inner"
    /\ IF last_error # None /\ ~IsRateLimitError(last_error)
       THEN /\ result' = Raised(last_error)
            /\ pc' = "done"
            /\ UNCHANGED idx
       ELSE /\ idx' = idx + 1
            /\ pc' = "for_model"
            /\ UNCHANGED result
    /\ UNCHANGED <<model, max_retries, models_to_try, attempt, retry_delay,
                   last_error, log>>
    /\ UNCHANGED <<jsonVars, transVars, concVars, moreVars>>

---------------------------------------------------------------------------
(* The generators of the local-model pipeline, each from its call to its return *)

\* what the local model call does: it raises, or returns a raw text
Generations == [raises : {TRUE}, raw : {<<>>}] \cup [raises : {FALSE}, raw : JsonTexts]

\* a generator returns res before its model has produced a text
ReturnEarly(res) ==
    /\ jresult' = res
    /\ generated_text' = NoText
    /\ json_text' = <<>>
    /\ parser_called' = FALSE
    /\ parse_outcome' = NoParse
    /\ elapsed' = <<>>

GenerateTemplateFields(model_loaded, doc_len, gen, parse, cs) ==
    /\ fn = ""
    /\ tpc = "idle"
    /\ fn' = "template"
    /\ IF ~model_loaded
       THEN ReturnEarly(TemplateResult(FALSE, <<>>, "Model not loaded"))
       ELSE IF doc_len < MIN_DOCUMENT_LEN
       THEN ReturnEarly(TemplateResult(FALSE, <<>>, "Document text too short to analyze"))
       ELSE IF gen.raises
       THEN ReturnEarly(TemplateResult(FALSE, <<>>, "model call failed"))
       ELSE LET text == Strip(gen.raw)
                ex == TemplateExtract(text)
            IN /\ generated_text' = text
               /\ elapsed' = <<cs>>
               /\ json_text' = ex.json_text
               /\ parser_called' = ex.ok
               /\ IF ~ex.ok
                  THEN /\ jresult' = TemplateResult(FALSE, <<>>, ex.error)
                       /\ parse_outcome' = NoParse
                  ELSE /\ parse \in ParseOutcomes(ex.json_text)
                       /\ parse_outcome' = parse
                       /\ jresult' =
                            CASE parse.verdict = "error" ->
                                   TemplateResult(FALSE, <<>>, FailedToParse(parse.msg))
                              [] parse.verdict = "nondict" ->
                                   TemplateResult(FALSE, <<>>, "AI did not return a dict of fields")
                              [] OTHER -> TemplateResult(TRUE, ex.json_text, "")
    /\ UNCHANGED <<retryVars, transVars, concVars, moreVars>>

GenerateNoteFromText(model_loaded, template_loaded, gen, parse, cs) ==
    /\ fn = ""
    /\ tpc = "idle"
    /\ fn' = "note"
    /\ IF ~model_loaded
       THEN ReturnEarly(NoteError("Model not available"))
       ELSE IF ~template_loaded
       THEN ReturnEarly(NoteError("Failed to load template"))
       ELSE IF gen.raises
       THEN ReturnEarly(NoteError("model call failed"))
       ELSE LET text == Strip(gen.raw) IN
            /\ generated_text' = text
            /\ elapsed' = <<cs>>
            /\ IF text = <<>>
               THEN /\ jresult' = NoteError("Model generated empty output")
                    /\ json_text' = <<>>
                    /\ parser_called' = FALSE
                    /\ parse_outcome' = NoParse
               ELSE /\ json_text' = NoteExtract(text)
                    /\ parser_called' = TRUE
                    /\ parse \in ParseOutcomes(NoteExtract(text))
                    /\ parse_outcome' = parse
                    /\ jresult' =
                         CASE parse.verdict = "error" -> NoteParseFailure(text, parse.msg, cs)
                           [] parse.verdict = "nondict" -> NoteError("TypeError")
                           [] OTHER -> NoteSuccess(NoteExtract(text), cs)
    /\ UNCHANGED <<retryVars, transVars, concVars, moreVars>>

\* format_text: the formatted text, or None (here NoText) on any exception
FormatText(input_empty, model_loaded, gen) ==
    IF input_empty \/ ~model_loaded \/ gen.raises THEN NoText ELSE Strip(gen.raw)

\* clean_text after format_text has returned
CleanTextResult(formatted) ==
    IF formatted = NoText
    THEN CleanResult(FALSE, <<>>, "Formatting failed - returned None")
    ELSE CleanResult(TRUE, formatted, "")

CleanText(input_empty, model_loaded, gen, cs) ==
    /\ fn = ""
    /\ tpc = "idle"
    /\ fn' = "clean"
    /\ LET formatted == FormatText(input_empty, model_loaded, gen) IN
       /\ generated_text' = formatted
       /\ elapsed' = IF formatted = NoText THEN <<>> ELSE <<cs>>
       /\ jresult' = CleanTextResult(formatted)
    /\ UNCHANGED <<json_text, parser_called, parse_outcome>>
    /\ UNCHANGED <<retryVars, transVars, concVars, moreVars>>

\* the exception transcribe_audio raises before it calls the Whisper model
WhisperValidation(path_given, exists, size, model_loaded) ==
    IF ~path_given THEN "Validation error: File path cannot be empty"
    ELSE IF ~exists THEN "File error: Audio file not found"
    ELSE IF size = 0 THEN "Validation error: Audio file is empty"
    ELSE IF ~model_loaded THEN "Runtime error: Whisper model not initialized"
    ELSE ""

TranscribeAudio(path_given, exists, size, model_loaded, gen, cs) ==
    /\ fn = ""
    /\ tpc = "idle"
    /\ fn' = "whisper"
    /\ LET invalid == WhisperValidation(path_given, exists, size, model_loaded) IN
       IF invalid # ""
       THEN ReturnEarly(WhisperResult(FALSE, <<>>, invalid))
       ELSE IF gen.raises
       THEN ReturnEarly(WhisperResult(FALSE, <<>>, "Unexpected error during transcription"))
       ELSE /\ generated_text' = Strip(gen.raw)
            /\ elapsed' = <<cs>>
            /\ jresult' = WhisperResult(TRUE, Strip(gen.raw), "")
            /\ UNCHANGED <<json_text, parser_called, parse_outcome>>
    /\ UNCHANGED <<retryVars, transVars, concVars, moreVars>>

AllParses == [verdict : {"error"}, msg : ParseMessages]
             \cup [verdict : {"dict", "nondict"}, msg : {""}]

JsonNext ==
    \/ \E ml \in BOOLEAN, dl \in {MIN_DOCUMENT_LEN - 1, MIN_DOCUMENT_LEN},
          gen \in Generations, parse \in AllParses, cs \in ElapsedTimes :
            GenerateTemplateFields(ml, dl, gen, parse, cs)
    \/ \E ml \in BOOLEAN, tl \in BOOLEAN,
          gen \in Generations, parse \in AllParses, cs \in ElapsedTimes :
            GenerateNoteFromText(ml, tl, gen, parse, cs)
    \/ \E ie \in BOOLEAN, ml \in BOOLEAN, gen \in Generations, cs \in ElapsedTimes :
            CleanText(ie, ml, gen, cs)
    \/ \E pg \in BOOLEAN, ex \in BOOLEAN, size \in {0, 1}, ml \in BOOLEAN,
          gen \in Generations, cs \in ElapsedTimes :
            TranscribeAudio(pg, ex, size, ml, gen, cs)

JsonSpec == Init /\ [][JsonNext]_vars

---------------------------------------------------------------------------
RequestStep ==
    \/ ForModel
    \/ AttemptLoopExit
    \/ \E out \in Outcomes : GenerateContent(out)
    \/ Sleep
    \/ AfterInner

Next ==
    \/ \E m \in PrimaryModels, mr \in 0..MaxRetries : CallApiWithRetry(m, mr)
    \/ RequestStep

Spec == Init /\ [][Next]_vars

\* The request runs in one thread; each remote call and each sleep returns.
FairSpec == Spec /\ WF_vars(RequestStep)

---------------------------------------------------------------------------
(* gemini_transcribe *)

DEFAULT_MAX_RETRIES == 3

GEMINI_TRANSCRIPTION_MODEL == "gemini-2.5-flash"

RemoteStates == {"PROCESSING", "ACTIVE", "FAILED"}

\* an operation issued to the remote service, and whether it returned
TOp(op, ok) == [op |-> op, ok |-> ok]

Gets == Cardinality({i \in 1..Len(tlog) : tlog[i].op = "get"})

AudioInvalidNoSizeCheck(a) ==
    IF ~a.exists THEN <<"Audio file not found">> ELSE None

\* the exception the validation raises, None when the file passes
AudioInvalid(a) ==
    IF ~a.exists THEN <<"Audio file not found">>
    ELSE IF a.size = 0 THEN <<"Audio file is empty">>
    ELSE None

PollAgainUnlessActive(state) == state # "ACTIVE"

\* condition of `while audio_file.state == "PROCESSING"`
PollAgain(state) == state = "PROCESSING"

ProcessingNeverFailed(state) == FALSE

\* condition of `if audio_file.state == "FAILED"`
ProcessingFailed(state) == state = "FAILED"

\* the except clause: result['error'] = str(e); return result
TRaise(e) ==
    /\ tresult' = TranscribeFailure(tresult.file_size_mb, e)
    /\ tpc' = "done"

\* validation and upload
GeminiTranscribe(a, m, up) ==
    /\ tpc = "idle"
    /\ pc = "idle"
    /\ fn = ""
    /\ audio' = a
    /\ tmodel' = m
    /\ IF AudioInvalid(a) # None
       THEN /\ TRaise(AudioInvalid(a))
            /\ UNCHANGED <<remote_state, file_state, tlog>>
       ELSE IF up = "raise"
       THEN /\ tlog' = <<TOp("upload", FALSE)>>
            /\ tresult' = TranscribeFailure(FileSizeMb(a.size), <<"upload failed">>)
            /\ tpc' = "done"
            /\ UNCHANGED <<remote_state, file_state>>
       ELSE /\ tlog' = <<TOp("upload", TRUE)>>
            /\ remote_state' = up
            /\ file_state' = up
            /\ tresult' = TranscribeFailure(FileSizeMb(a.size), <<>>)
            /\ tpc' = "uploaded"
    /\ UNCHANGED <<retryVars, jsonVars, concVars, moreVars>>

\* the remote service finishes processing the uploaded file
RemoteFinish(st) ==
    /\ tpc = "uploaded"
    /\ remote_state = "PROCESSING"
    /\ remote_state' = st
    /\ UNCHANGED <<tpc, audio, tmodel, file_state, tlog, tresult>>
    /\ UNCHANGED <<retryVars, jsonVars, concVars, moreVars>>

\* one iteration of the polling loop: sleep, then files.get
Poll(g) ==
    /\ tpc = "uploaded"
    /\ PollAgain(file_state)
    /\ IF g = "raise"
       THEN /\ tlog' = Append(tlog, TOp("get", FALSE))
            /\ TRaise(<<"get failed">>)
            /\ UNCHANGED file_state
       ELSE /\ file_state' = remote_state
            /\ tlog' = IF remote_state = file_state /\ Gets >= MaxPolls
                       THEN tlog
                       ELSE Append(tlog, TOp("get", TRUE))
            /\ UNCHANGED <<tpc, tresult>>
    /\ UNCHANGED <<audio, tmodel, remote_state>>
    /\ UNCHANGED <<retryVars, jsonVars, concVars, moreVars>>

\* the loop is left: the FAILED check, then the call of _call_api_with_retry
AfterPolling ==
    /\ tpc = "uploaded"
    /\ ~PollAgain(file_state)
    /\ IF ProcessingFailed(file_state)
       THEN /\ TRaise(<<"Gemini failed to process audio file">>)
            /\ UNCHANGED tlog
            /\ UNCHANGED retryVars
       ELSE /\ StartRequest(IF tmodel = "" THEN GEMINI_TRANSCRIPTION_MODEL ELSE tmodel,
                            DEFAULT_MAX_RETRIES)
            /\ tlog' = Append(tlog, TOp("invoke", TRUE))
            /\ tpc' = "generate"
            /\ UNCHANGED tresult
    /\ UNCHANGED <<audio, tmodel, remote_state, file_state>>
    /\ UNCHANGED <<jsonVars, concVars, moreVars>>

AfterGenerateUpdatesFirst(d) ==
    /\ tpc = "generate"
    /\ pc = "done"
    /\ IF result.kind = "raised"
       THEN /\ TRaise(result.err)
            /\ UNCHANGED tlog
       ELSE /\ tlog' = Append(tlog, TOp("delete", d # "raise"))
            /\ tresult' = [TranscribeSuccess(tresult.file_size_mb, result.value)
                              EXCEPT !.error = IF d = "raise" THEN <<"delete failed">> ELSE <<>>]
            /\ tpc' = "done"
    /\ UNCHANGED <<audio, tmodel, remote_state, file_state>>
    /\ UNCHANGED <<retryVars, jsonVars, concVars, moreVars>>

\* _call_api_with_retry has returned or raised: delete, then the result
AfterGenerate(d) ==
    /\ tpc = "generate"
    /\ pc = "done"
    /\ IF result.kind = "raised"
       THEN /\ TRaise(result.err)
            /\ UNCHANGED tlog
       ELSE /\ tlog' = Append(tlog, TOp("delete", d # "raise"))
            /\ IF d = "raise"
               THEN TRaise(<<"delete failed">>)
               ELSE /\ tresult' = TranscribeSuccess(tresult.file_size_mb, result.value)
                    /\ tpc' = "done"
    /\ UNCHANGED <<audio, tmodel, remote_state, file_state>>
    /\ UNCHANGED <<retryVars, jsonVars, concVars, moreVars>>

Audios == {NoAudio} \cup [exists : {TRUE}, size : {0, 1}]

\* the remote outcomes of a transcription request: short texts only
TranscribeOutcomes == {o \in Outcomes : Len(o.text) <= 1}

\* the steps of _call_api_with_retry inside gemini_transcribe (max_retries is
\* 3 there, so the inner loop never runs out of iterations)
TranscribeRequestStep ==
    \/ ForModel
    \/ \E out \in TranscribeOutcomes : GenerateContent(out)
    \/ Sleep
    \/ AfterInner

TranscribeNext ==
    \/ \E a \in Audios, m \in {"", "gemini-2.0-pro"}, up \in RemoteStates \cup {"raise"} :
            GeminiTranscribe(a, m, up)
    \/ \E st \in {"ACTIVE", "FAILED"} : RemoteFinish(st)
    \/ \E g \in {"ok", "raise"} : Poll(g)
    \/ AfterPolling
    \/ TranscribeRequestStep
    \/ \E d \in {"ok", "raise"} : AfterGenerate(d)

TranscribeSpec == Init /\ [][TranscribeNext]_vars

\* Each remote call and each sleep returns, and the remote service finishes
\* processing the file; no call is assumed to succeed.
TranscribeFairSpec ==
    /\ TranscribeSpec
    /\ WF_vars(Poll("ok"))
    /\ WF_vars(AfterPolling)
    /\ WF_vars(TranscribeRequestStep)
    /\ WF_vars(\E d \in {"ok", "raise"} : AfterGenerate(d))
    /\ WF_vars(\E st \in {"ACTIVE", "FAILED"} : RemoteFinish(st))

---------------------------------------------------------------------------
(* _call_api_with_retry on short texts: the order and the number of its   *)
(* calls and sleeps do not depend on the text a call returns              *)

RetryNext ==
    \/ \E m \in PrimaryModels, mr \in 0..MaxRetries : CallApiWithRetry(m, mr)
    \/ ForModel
    \/ AttemptLoopExit
    \/ \E out \in TranscribeOutcomes : GenerateContent(out)
    \/ Sleep
    \/ AfterInner

RetrySpec == Init /\ [][RetryNext]_vars

---------------------------------------------------------------------------
(* The caller-facing operations: one of them is called *)

\* (the conjuncts repeat the guards of the operations' entry actions)
CallerNext ==
    \/ tpc = "idle" /\ JsonNext
    \/ fn = "" /\ TranscribeNext

CallerSpec == Init /\ [][CallerNext]_vars

---------------------------------------------------------------------------
(* Concurrent invocations of _call_api_with_retry on one Gemini object.      *)
(* An invocation's locals are a record; its steps are those of the single    *)
(* request above.                                                            *)

\* entry: models_to_try is built from self.FALLBACK_MODELS
NewRequest(g, m, mr) ==
    [IdleRequest EXCEPT !.pc = "for_model", !.model = m, !.max_retries = mr,
                        !.models_to_try = <<m>> \o Filter(g.FALLBACK_MODELS, m),
                        !.idx = 1]

\* the invocation is about to call generate_content
AtCall(r) == r.pc = "attempt" /\ r.attempt < r.max_retries

\* one step of an invocation with locals r; out is the outcome of the
\* remote call when the step makes one
ReqStep(r, out) ==
    CASE r.pc = "for_model" ->
           IF r.idx > Len(r.models_to_try)
           THEN [r EXCEPT !.result = RaiseExhausted(r.models_to_try), !.pc = "done"]
           ELSE [r EXCEPT !.retry_delay = 2, !.last_error = None, !.attempt = 0,
                          !.pc = "attempt"]
      [] r.pc = "attempt" /\ ~AtCall(r) -> [r EXCEPT !.pc = "after_inner"]
      [] AtCall(r) ->
           LET e == ErrorOf(out)
               called == [r EXCEPT !.log = Append(@, CallEvent(r.models_to_try[r.idx], out))]
               todo == OnError(e, r.attempt, r.max_retries)
           IN IF e = None
              THEN [called EXCEPT !.result = Returned(Strip(out.text)), !.pc = "done"]
              ELSE [called EXCEPT !.last_error = e,
                                  !.pc = CASE todo = "break" -> "after_inner"
                                           [] todo = "sleep" -> "sleep"
                                           [] OTHER -> "done",
                                  !.result = IF todo = "raise" THEN Raised(e) ELSE @]
      [] r.pc = "sleep" ->
           [r EXCEPT !.log = Append(@, SleepEvent(r.retry_delay)),
                     !.retry_delay = NextDelay(@),
                     !.attempt = @ + 1,
                     !.pc = "attempt"]
      [] r.pc = "after_inner" ->
           IF r.last_error # None /\ ~IsRateLimitError(r.last_error)
           THEN [r EXCEPT !.result = Raised(r.last_error), !.pc = "done"]
           ELSE [r EXCEPT !.idx = @ + 1, !.pc = "for_model"]
      [] OTHER -> r

NoOutcome == [kind |-> "", text |-> <<>>, msg |-> None]

SelfForgetsRateLimited(g, r, out) ==
    IF AtCall(r) /\ ErrorOf(out) # None /\ IsRateLimitError(ErrorOf(out))
    THEN [g EXCEPT !.FALLBACK_MODELS = Filter(@, r.models_to_try[r.idx])]
    ELSE g

\* the Gemini object after a step of an invocation: no statement of
\* _call_api_with_retry assigns a field of self or of the class
SelfAfterStep(g, r, out) == g

\* remote outcomes of the concurrent invocations: a text, a rate limit, a
\* network error, another error
ConcOutcomes ==
    {o \in Outcomes : /\ o.kind # "ok_none"
                      /\ o.text = <<>>
                      /\ o.msg \in {None, <<"Quota", "exceeded">>, <<"Read", "Timeout">>,
                                    <<"400", "invalid argument">>}}

ConcCallApiWithRetry(i, m, mr) ==
    /\ creq[i].pc = "idle"
    /\ creq' = [creq EXCEPT ![i] = NewRequest(gemini, m, mr)]
    /\ UNCHANGED gemini
    /\ UNCHANGED <<retryVars, jsonVars, transVars, moreVars>>

\* a step of invocation i that makes no remote call
ConcLocalStep(i) ==
    /\ creq[i].pc \notin {"idle", "done"}
    /\ ~AtCall(creq[i])
    /\ creq' = [creq EXCEPT ![i] = ReqStep(@, NoOutcome)]
    /\ gemini' = SelfAfterStep(gemini, creq[i], NoOutcome)
    /\ UNCHANGED <<retryVars, jsonVars, transVars, moreVars>>

\* invocation i calls generate_content and handles its outcome
ConcGenerateContent(i, out) ==
    /\ AtCall(creq[i])
    /\ creq' = [creq EXCEPT ![i] = ReqStep(@, out)]
    /\ gemini' = SelfAfterStep(gemini, creq[i], out)
    /\ UNCHANGED <<retryVars, jsonVars, transVars, moreVars>>

ConcNext ==
    \/ \E i \in Requests, m \in {GEMINI_MODEL}, mr \in 1..MaxConcRetries :
            ConcCallApiWithRetry(i, m, mr)
    \/ \E i \in Requests : ConcLocalStep(i)
    \/ \E i \in Requests, out \in ConcOutcomes : ConcGenerateContent(i, out)

ConcSpec == Init /\ [][ConcNext]_vars

---------------------------------------------------------------------------
(* Properties of _call_api_with_retry *)

IsCall(i) == log[i].op = "call"

IsSleep(i) == log[i].op = "sleep"

\* the error an attempt raised, None when it raised none
RaisedBy(i) == ErrorOf(log[i].out)

RateLimited(i) == IsCall(i) /\ RaisedBy(i) # None /\ IsRateLimitError(RaisedBy(i))

\* classified as a transient network error: reaches the network branch
NetworkFailed(i) ==
    /\ IsCall(i)
    /\ RaisedBy(i) # None
    /\ ~IsRateLimitError(RaisedBy(i))
    /\ IsNetworkError(RaisedBy(i))

OtherFailed(i) ==
    /\ IsCall(i)
    /\ RaisedBy(i) # None
    /\ ~IsRateLimitError(RaisedBy(i))
    /\ ~IsNetworkError(RaisedBy(i))

\* number of the attempt log[i] among the calls to its model
AttemptNo(i) ==
    Cardinality({j \in 1..i : IsCall(j) /\ log[j].model = log[i].model})

\* model whose retry loop the sleep log[j] belongs to
SleepModel(j) == IF j > 1 THEN log[j - 1].model ELSE ""

\* number of the sleep log[j] among the sleeps of its model
SleepNo(j) ==
    Cardinality({h \in 1..j : IsSleep(h) /\ SleepModel(h) = SleepModel(j)})

RECURSIVE Pow2(_)
Pow2(n) == IF n <= 0 THEN 1 ELSE 2 * Pow2(n - 1)

PositionOf(s, x) == CHOOSE i \in 0..Len(s) : (i > 0 /\ s[i] = x /\ \A j \in 1..(i - 1) : s[j] # x)
                                            \/ (i = 0 /\ x \notin Range(s))

\* the models called, in the order of their first call
RECURSIVE FirstCalls(_, _)
FirstCalls(i, seen) ==
    IF i > Len(log) THEN <<>>
    ELSE IF IsCall(i) /\ log[i].model \notin seen
         THEN <<log[i].model>> \o FirstCalls(i + 1, seen \cup {log[i].model})
         ELSE FirstCalls(i + 1, seen)

ModelsCalled == FirstCalls(1, {})

\* index of the last call to model m, 0 when m was never called
LastCallTo(m) ==
    CHOOSE i \in 0..Len(log) :
        \/ (i > 0 /\ IsCall(i) /\ log[i].model = m
              /\ \A j \in (i + 1)..Len(log) : ~(IsCall(j) /\ log[j].model = m))
        \/ (i = 0 /\ \A j \in 1..Len(log) : ~(IsCall(j) /\ log[j].model = m))

\* v is t without its leading and trailing whitespace
IsTrimOf(v, t) ==
    \E a \in 0..Len(t) : \E b \in a..Len(t) :
        /\ v = SubSeq(t, a + 1, b)
        /\ \A k \in 1..a : t[k] \in Whitespace
        /\ \A k \in (b + 1)..Len(t) : t[k] \in Whitespace
        /\ (v = <<>> \/ (v[1] \notin Whitespace /\ v[Len(v)] \notin Whitespace))

\* C1: once the request has started, the candidate sequence starts with the
\* primary model, holds exactly the primary model and the configured
\* fallbacks, holds no model twice (so the primary once), and keeps the
\* fallbacks other than the primary in FALLBACK_MODELS order.
C1_CandidateSequence ==
    pc # "idle" =>
        /\ models_to_try[1] = model
        /\ Range(models_to_try) = {model} \cup Range(FALLBACK_MODELS)
        /\ Cardinality(Range(models_to_try)) = Len(models_to_try)
        /\ \A i, j \in 1..Len(FALLBACK_MODELS) :
              (i < j /\ FALLBACK_MODELS[i] # model /\ FALLBACK_MODELS[j] # model)
              => /\ 1 < PositionOf(models_to_try, FALLBACK_MODELS[i])
                 /\ PositionOf(models_to_try, FALLBACK_MODELS[i])
                      < PositionOf(models_to_try, FALLBACK_MODELS[j])

\* the spec's example: M = F2 of [F1, F2, F3] gives [M, F1, F3]
C1_Witness ==
    /\ pc = "attempt"
    /\ model = FALLBACK_MODELS[2]
    /\ models_to_try = <<FALLBACK_MODELS[2], FALLBACK_MODELS[1], FALLBACK_MODELS[3]>>

\* C2: after an attempt that raised a rate-limit error, the request never
\* sleeps for and never calls that model again; the event that follows, if
\* any, is a call to the next candidate model.
C2_RateLimitShortCircuit ==
    \A i \in 1..Len(log) :
        RateLimited(i) =>
            /\ \A j \in (i + 1)..Len(log) : ~(IsCall(j) /\ log[j].model = log[i].model)
            /\ (i = Len(log) => pc # "sleep")
            /\ (i < Len(log) =>
                  /\ IsCall(i + 1)
                  /\ PositionOf(models_to_try, log[i + 1].model)
                       = PositionOf(models_to_try, log[i].model) + 1)

\* a first attempt is rate-limited although two more attempts were
\* allowed, and the next call goes to the next candidate
C2_Witness ==
    /\ max_retries = 3
    /\ Len(log) >= 2
    /\ RateLimited(1)
    /\ IsCall(2)
    /\ log[2].model = models_to_try[2]

\* C3: after an attempt that raised a transient network error while
\* retries remained for its model, the next event is one sleep, the k-th
\* sleep of that model lasting 2 * 2^(k-1) seconds, and the event after
\* the sleep is a call to the same model.
C3_NetworkRetryBackoff ==
    \A i \in 1..Len(log) :
        (NetworkFailed(i) /\ AttemptNo(i) < max_retries) =>
            /\ (i = Len(log) => pc = "sleep")
            /\ (i < Len(log) =>
                  /\ IsSleep(i + 1)
                  /\ log[i + 1].delay = 2 * Pow2(SleepNo(i + 1) - 1))
            /\ (i + 1 = Len(log) => pc = "attempt")
            /\ (i + 1 < Len(log) =>
                  /\ IsCall(i + 2)
                  /\ log[i + 2].model = log[i].model)

\* two network errors, then success on attempt 3: the sleeps are 2, 4
C3_Witness ==
    /\ pc = "done"
    /\ result.kind = "returned"
    /\ Len(log) = 5
    /\ NetworkFailed(1) /\ NetworkFailed(3)
    /\ IsSleep(2) /\ log[2].delay = 2
    /\ IsSleep(4) /\ log[4].delay = 4
    /\ IsCall(5) /\ log[5].out.kind = "ok" /\ log[5].model = log[1].model

\* C4: when the request has ended and the last attempt on every candidate
\* model raised a rate-limit error, the request raised the aggregate error:
\* it names rate-limit exhaustion on all models and lists the models that
\* were called, in the order they were called, which are all candidates.
C4_AllRateLimited ==
    (/\ pc = "done"
     /\ \A k \in 1..Len(models_to_try) :
           /\ LastCallTo(models_to_try[k]) # 0
           /\ RateLimited(LastCallTo(models_to_try[k])))
    => /\ result.kind = "raised"
       /\ Len(result.err) >= 2
       /\ result.err[1] = "API rate limit exceeded on all models."
       /\ result.err[2] = "Models tried:"
       /\ SubSeq(result.err, 3, Len(result.err)) = ModelsCalled
       /\ ModelsCalled = models_to_try

\* all three candidates of a primary model from the fallback list are
\* rate-limited, one of them after a network retry
C4_Witness ==
    /\ pc = "done"
    /\ model = FALLBACK_MODELS[2]
    /\ \A k \in 1..Len(models_to_try) :
          /\ LastCallTo(models_to_try[k]) # 0
          /\ RateLimited(LastCallTo(models_to_try[k]))
    /\ \E i \in 1..Len(log) : IsSleep(i)

\* C5: an attempt that raised an error that is neither rate-limit nor
\* network classified is the last event of the request, which has ended
\* raising that same error.
C5_OtherErrorFatal ==
    \A i \in 1..Len(log) :
        OtherFailed(i) =>
            /\ i = Len(log)
            /\ pc = "done"
            /\ result = Raised(RaisedBy(i))

\* a fatal error on the first attempt of the primary model, with retries
\* and candidates left
C5_Witness ==
    /\ Len(log) = 1
    /\ OtherFailed(1)
    /\ log[1].out.kind = "error"
    /\ max_retries = 3
    /\ pc = "done"

\* C6: a remote call that returned a response is the last event of the
\* request and the request has ended; if the response carries a text the
\* request returned that text without its surrounding whitespace; and the
\* request has returned a value only if its last event is such a call.
C6_SuccessEndsRequest ==
    /\ \A i \in 1..Len(log) :
          (IsCall(i) /\ log[i].out.kind \in {"ok", "ok_none"}) =>
              /\ i = Len(log)
              /\ pc = "done"
              /\ (log[i].out.kind = "ok" =>
                    /\ result.kind = "returned"
                    /\ IsTrimOf(result.value, log[i].out.text))
    /\ result.kind = "returned" =>
          /\ Len(log) > 0
          /\ IsCall(Len(log))
          /\ log[Len(log)].out.kind = "ok"

\* a fallback model answers " a " after the primary was rate-limited
C6_Witness ==
    /\ pc = "done"
    /\ Len(log) = 2
    /\ RateLimited(1)
    /\ log[2].out.kind = "ok"
    /\ log[2].out.text = <<" ", "a", " ">>
    /\ result = Returned(<<"a">>)

\* C7: every started request eventually ends with exactly one outcome, a
\* returned text or a raised error: it has no outcome before it ends, and
\* once ended it stays ended with the same outcome.
C7_Terminates ==
    /\ (pc # "idle") ~> (pc = "done" /\ result.kind \in {"returned", "raised"})
    /\ [](result.kind # "none" => pc = "done")
    /\ [][pc = "done" => (pc' = "done" /\ result' = result)]_vars

\* a request with max_retries = 0 ends without any call; one with four
\* candidates ends after network retries on the last of them
C7_Witness ==
    /\ pc = "done"
    /\ Len(models_to_try) = 4
    /\ \/ max_retries = 0
       \/ /\ Len(log) >= 6
          /\ IsSleep(Len(log) - 1)
          /\ log[Len(log)].model = models_to_try[4]

\* C19: an attempt that raised a transient network error on the last
\* permitted attempt of its model (attempt number max_retries) is the last
\* event of the request, which has ended raising that same error, not the
\* aggregate rate-limit error; no sleep and no other candidate follows.
C19_LastAttemptNetworkPropagates ==
    \A i \in 1..Len(log) :
        (NetworkFailed(i) /\ AttemptNo(i) = max_retries) =>
            /\ i = Len(log)
            /\ pc = "done"
            /\ result = Raised(RaisedBy(i))
            /\ result.err # AggregateError(models_to_try)

\* the primary model fails three times with a network error while three
\* fallback candidates are left untried
C19_Witness ==
    /\ pc = "done"
    /\ max_retries = 3
    /\ Len(models_to_try) = 4
    /\ Len(log) = 5
    /\ NetworkFailed(1) /\ IsSleep(2) /\ NetworkFailed(3) /\ IsSleep(4) /\ NetworkFailed(5)
    /\ log[5].model = model

IsAggregateError(e) ==
    Len(e) >= 1 /\ e[1] = "API rate limit exceeded on all models."

\* C20: the request raises the aggregate rate-limit error only when every
\* candidate model was called at least once and the last attempt on every
\* candidate raised a rate-limit error, for every max_retries >= 0.
C20_AggregateOnlyWhenAllRateLimited ==
    (result.kind = "raised" /\ IsAggregateError(result.err)) =>
        \A k \in 1..Len(models_to_try) :
            /\ LastCallTo(models_to_try[k]) # 0
            /\ RateLimited(LastCallTo(models_to_try[k]))

\* the part of C20 that the code meets: max_retries >= 1
C20_AggregateForPositiveRetries ==
    (result.kind = "raised" /\ IsAggregateError(result.err) /\ max_retries >= 1) =>
        \A k \in 1..Len(models_to_try) :
            /\ LastCallTo(models_to_try[k]) # 0
            /\ RateLimited(LastCallTo(models_to_try[k]))

---------------------------------------------------------------------------
(* Properties of the JSON-boundary extraction *)

Generated == fn # "" /\ generated_text # NoText

HasBrace(t) == "{" \in Range(t)

FirstBrace(t) == CHOOSE i \in 1..Len(t) : t[i] = "{" /\ \A j \in 1..(i - 1) : t[j] # "{"

\* running brace depth of t[a..b]: opening braces minus closing braces
Depth(t, a, b) ==
    Cardinality({k \in a..b : t[k] = "{"}) - Cardinality({k \in a..b : t[k] = "}"})

\* positions at which the depth, counted from the first "{", is back at zero
ClosingPositions(t) == {e \in FirstBrace(t)..Len(t) : Depth(t, FirstBrace(t), e) = 0}

BalancedSpan(t) ==
    LET e == CHOOSE x \in ClosingPositions(t) : \A y \in ClosingPositions(t) : x <= y
    IN SubSeq(t, FirstBrace(t), e)

\* C8: for a generated text with a "{" whose brace depth returns to zero,
\* the candidate handed to the parser is the substring from the first "{"
\* through the first "}" at which the depth is zero again.
C8_BraceDepthCandidate ==
    (Generated /\ HasBrace(generated_text) /\ ClosingPositions(generated_text) # {})
    => /\ parser_called
       /\ json_text = BalancedSpan(generated_text)

\* the part of C8 that generate_template_fields meets
C8_TemplateCandidate ==
    (fn = "template" /\ Generated /\ HasBrace(generated_text)
       /\ ClosingPositions(generated_text) # {})
    => /\ parser_called
       /\ json_text = BalancedSpan(generated_text)

\* C9: for a generated text with a "{" whose brace depth never returns to
\* zero, the generator fails with the error that no matching closing brace
\* was found, and hands no candidate to the parser.
C9_UnmatchedBraceFails ==
    (Generated /\ HasBrace(generated_text) /\ ClosingPositions(generated_text) = {})
    => /\ ~parser_called
       /\ ~jresult.success
       /\ jresult.error = "No matching closing brace found in JSON"

\* the part of C9 that generate_template_fields meets
C9_TemplateUnmatched ==
    (fn = "template" /\ Generated /\ HasBrace(generated_text)
       /\ ClosingPositions(generated_text) = {})
    => /\ ~parser_called
       /\ ~jresult.success
       /\ jresult.error = "No matching closing brace found in JSON"

\* C10 as claimed: for a generated text without "{", the whole text is the
\* candidate and is handed to the parser.
C10_NoBraceWholeText ==
    (Generated /\ ~HasBrace(generated_text))
    => /\ parser_called
       /\ json_text = generated_text

\* C10 as amended: for a generated text without "{", generate_note_from_text
\* hands the whole text to the parser when the text is not empty and fails
\* with "Model generated empty output" when it is; generate_template_fields
\* fails with "No JSON found in model output" and does not call the parser.
C10_NoBraceByGenerator ==
    (Generated /\ ~HasBrace(generated_text))
    => /\ (fn = "note" /\ generated_text # <<>>)
            => (parser_called /\ json_text = generated_text)
       /\ (fn = "note" /\ generated_text = <<>>)
            => /\ ~parser_called
               /\ jresult = NoteError("Model generated empty output")
       /\ fn = "template"
            => /\ ~parser_called
               /\ jresult = TemplateResult(FALSE, <<>>, "No JSON found in model output")

\* generate_note_from_text parses a text without any brace as it stands
C10_Witness ==
    /\ fn = "note"
    /\ generated_text = <<"a", "}", "a">>
    /\ parser_called
    /\ json_text = generated_text

---------------------------------------------------------------------------
(* Properties of the failure results *)

ParseFailed == parser_called /\ parse_outcome.verdict = "error"

CarriesRawText(res) == "raw_output" \in res.keys /\ res.raw_output = generated_text

CarriesParseMessage(res) ==
    \/ "parse_error" \in res.keys /\ res.parse_error = parse_outcome.msg
    \/ res.error = FailedToParse(parse_outcome.msg)

CarriesElapsed(res) ==
    /\ "_generation_time" \in res.keys
    /\ elapsed # <<>>
    /\ res.generation_time = FormatElapsed(elapsed[1])

C14_EmptyTextFails ==
    (fn \in {"clean", "note"} /\ generated_text = <<>>) => ~jresult.success

---------------------------------------------------------------------------
(* Properties of gemini_transcribe *)

TOps(op) == {i \in 1..Len(tlog) : tlog[i].op = op}

Uploaded == Len(tlog) >= 1 /\ tlog[1] = TOp("upload", TRUE)

\* C12: every execution of gemini_transcribe in which the upload succeeded has
\* issued a delete of the uploaded file when it returns, whatever the outcome.
C12_DeleteAfterUpload ==
    (tpc = "done" /\ Uploaded) => TOps("delete") # {}

\* C16: when the audio path does not exist or the file has size zero,
\* gemini_transcribe returns a failure envelope (success false, empty text,
\* non-empty error) and issues no upload, poll, generation call or delete.
C16_InvalidAudioNoRemoteCall ==
    (tpc = "done" /\ (~audio.exists \/ audio.size = 0)) =>
        /\ ~tresult.success
        /\ tresult.text = <<>>
        /\ tresult.error # <<>>
        /\ tlog = <<>>
        /\ pc = "idle"
        /\ log = <<>>

C16_Witness ==
    /\ tpc = "done"
    /\ audio = [exists |-> TRUE, size |-> 0]
    /\ tresult.error = <<"Audio file is empty">>

\* C17: the remote steps of gemini_transcribe occur in the order upload, status
\* polls, at most one orchestrator invocation; the orchestrator is invoked only
\* after a state other than PROCESSING was observed, and never when that state
\* is FAILED, in which case the result is a failure envelope.
C17_UploadPollInvoke ==
    /\ TOps("upload") \subseteq {1}
    /\ Cardinality(TOps("invoke")) <= 1
    /\ \A i \in TOps("get"), j \in TOps("invoke") : 1 < i /\ i < j
    /\ (TOps("get") \cup TOps("invoke") \cup TOps("delete") # {}) => Uploaded
    /\ (pc # "idle") <=> (TOps("invoke") # {})
    /\ (TOps("invoke") # {}) => file_state \notin {"PROCESSING", "FAILED"}
    /\ (tpc = "done" /\ file_state = "FAILED") => (~tresult.success /\ tresult.error # <<>>)

C17_Witness ==
    /\ tpc = "done"
    /\ tresult.success
    /\ Len(tlog) = 5
    /\ tlog[2].op = "get" /\ tlog[3].op = "get" /\ tlog[4].op = "invoke"
    /\ file_state = "ACTIVE"

\* a status poll raised
PollRaised == \E i \in TOps("get") : ~tlog[i].ok

\* C18: gemini_transcribe eventually returns once the remote file state leaves
\* PROCESSING and each remote call returns; the polling loop has no limit of
\* its own: it is left only on a state other than PROCESSING (or an exception).
C18_ReturnsOnceProcessed ==
    /\ (tpc # "idle") ~> (tpc = "done")
    /\ [](tpc \in {"generate", "done"} /\ Uploaded =>
            file_state # "PROCESSING" \/ PollRaised)

C18_Witness ==
    /\ tpc = "done"
    /\ Gets = MaxPolls + 1
    /\ file_state = "ACTIVE"
    /\ \A i \in TOps("get") : tlog[i].ok

---------------------------------------------------------------------------
(* Properties of the caller-facing results *)

\* the key under which each operation returns its payload
PayloadKey ==
    [clean |-> "formatted_text", template |-> "fields", whisper |-> "text"]

---------------------------------------------------------------------------
(* Properties of concurrent invocations *)

\* the outcomes of the remote calls in a log, in order
RECURSIVE CallOuts(_)
CallOuts(l) ==
    IF l = <<>> THEN <<>>
    ELSE IF Head(l).op = "call" THEN <<Head(l).out>> \o CallOuts(Tail(l))
    ELSE CallOuts(Tail(l))

\* the invocation r run alone on the remote outcomes outs, up to its end or to
\* the call whose outcome is not in outs
RECURSIVE RunAlone(_, _)
RunAlone(r, outs) ==
    IF r.pc = "done" THEN r
    ELSE IF AtCall(r)
         THEN IF outs = <<>> THEN r ELSE RunAlone(ReqStep(r, Head(outs)), Tail(outs))
         ELSE RunAlone(ReqStep(r, NoOutcome), outs)

IsPrefix(s, t) == Len(s) <= Len(t) /\ SubSeq(t, 1, Len(s)) = s

Alone(i) ==
    RunAlone(NewRequest(GeminiObject, creq[i].model, creq[i].max_retries),
             CallOuts(creq[i].log))

\* C15: in any interleaving of concurrent invocations on one Gemini object,
\* each invocation's candidate sequence, attempts and sleeps are those of the
\* same invocation run alone on the same remote outcomes, and the Gemini
\* object's fields and FALLBACK_MODELS are unchanged.
C15_AsIfAlone ==
    /\ gemini = GeminiObject
    /\ \A i \in Requests :
          creq[i].pc # "idle" =>
              /\ creq[i].models_to_try = Alone(i).models_to_try
              /\ IsPrefix(creq[i].log, Alone(i).log)
              /\ creq[i].pc = "done" =>
                    /\ creq[i].log = Alone(i).log
                    /\ creq[i].result = Alone(i).result

C15_Witness ==
    /\ creq[1].pc = "done" /\ creq[2].pc = "done"
    /\ creq[1].max_retries = 1 /\ creq[2].max_retries = MaxConcRetries
    /\ Len(creq[1].log) >= 2
    /\ creq[1].log[1].out.msg = <<"Quota", "exceeded">>
    /\ creq[1].log[2].model = "gemini-2.5-flash-lite"
    /\ creq[1].log[2].out.msg = <<"Quota", "exceeded">>
    /\ Len(creq[2].log) = 4
    /\ creq[2].log[1].out.msg = <<"Read", "Timeout">>
    /\ creq[2].log[2].op = "sleep"
    /\ creq[2].log[3].out.msg = <<"Quota", "exceeded">>
    /\ creq[2].log[4].model = "gemini-2.5-flash-lite"
    /\ creq[2].result.kind = "returned"

---------------------------------------------------------------------------
(* Further properties of _call_api_with_retry *)

Calls == {i \in 1..Len(log) : IsCall(i)}

\* index of the last call to model m before log[j], 0 when there is none
LastCallBefore(m, j) ==
    CHOOSE i \in 0..(j - 1) :
        \/ (i > 0 /\ IsCall(i) /\ log[i].model = m
              /\ \A h \in (i + 1)..(j - 1) : ~(IsCall(h) /\ log[h].model = m))
        \/ (i = 0 /\ \A h \in 1..(j - 1) : ~(IsCall(h) /\ log[h].model = m))

\* C21: a remote call to the candidate at a later position occurs only if the
\* last attempt on each earlier candidate raised a rate-limit error; the
\* candidates are called in sequence order and none is called again after a
\* later one.  (A call and its outcome are one step of the single-threaded
\* request, so no second call is made while one is in flight.)
C21_FallbackOnlyAfterRateLimit ==
    /\ \A j \in Calls :
          LET p == PositionOf(models_to_try, log[j].model) IN
          /\ p >= 1
          /\ \A q \in 1..(p - 1) :
                /\ LastCallBefore(models_to_try[q], j) # 0
                /\ RateLimited(LastCallBefore(models_to_try[q], j))
    /\ \A j, k \in Calls :
          j < k => PositionOf(models_to_try, log[j].model)
                     <= PositionOf(models_to_try, log[k].model)

\* the third candidate is called after a network retry and a rate limit on
\* the first and a rate limit on the second
C21_Witness ==
    /\ Len(log) = 5
    /\ NetworkFailed(1) /\ IsSleep(2) /\ RateLimited(3) /\ RateLimited(4)
    /\ IsCall(5)
    /\ log[5].model = models_to_try[3]
    /\ log[5].out.kind = "ok"

CallsTo(m) == {i \in Calls : log[i].model = m}

SleepsFor(m) == {j \in 1..Len(log) : IsSleep(j) /\ SleepModel(j) = m}

\* C22: in every state of a request, the calls against any one candidate are
\* at most max_retries, the sleeps for it are at most max_retries - 1, and the
\* calls of the request are at most max_retries times the number of candidates.
C22_AttemptBounds ==
    pc # "idle" =>
        /\ \A k \in 1..Len(models_to_try) :
              /\ Cardinality(CallsTo(models_to_try[k])) <= max_retries
              /\ Cardinality(SleepsFor(models_to_try[k])) <= max_retries - 1
        /\ Cardinality(Calls) <= max_retries * Len(models_to_try)

\* C22 with the sleeps of a request that is allowed no attempt: none, where
\* max_retries - 1 is negative.
C22_AttemptBoundsFromZero ==
    pc # "idle" =>
        /\ \A k \in 1..Len(models_to_try) :
              /\ Cardinality(CallsTo(models_to_try[k])) <= max_retries
              /\ Cardinality(SleepsFor(models_to_try[k]))
                   <= (IF max_retries >= 1 THEN max_retries - 1 ELSE 0)
        /\ Cardinality(Calls) <= max_retries * Len(models_to_try)

\* every attempt allowed on the first candidate is made, with a sleep
\* between two of them
C22_Witness ==
    /\ pc = "done"
    /\ max_retries = 3
    /\ Cardinality(CallsTo(models_to_try[1])) = 3
    /\ Cardinality(SleepsFor(models_to_try[1])) = 2

\* C26: the back-off delay is kept per candidate: the first sleep on each
\* candidate lasts 2 seconds whatever delays earlier candidates reached, and
\* no sleep follows the rate-limit error of a candidate before the first call
\* to the next one.
C26_DelayPerCandidate ==
    /\ \A j \in 1..Len(log) :
          (IsSleep(j) /\ SleepNo(j) = 1) => log[j].delay = 2
    /\ \A i \in 1..Len(log) :
          RateLimited(i) =>
              /\ (i = Len(log) => pc # "sleep")
              /\ (i < Len(log) => IsCall(i + 1) /\ log[i + 1].model # log[i].model)

\* the first candidate reaches a delay of 4 before its rate limit; the first
\* sleep of the second candidate lasts 2
C26_Witness ==
    /\ Len(log) = 7
    /\ IsSleep(2) /\ log[2].delay = 2
    /\ IsSleep(4) /\ log[4].delay = 4
    /\ RateLimited(5)
    /\ NetworkFailed(6) /\ log[6].model = models_to_try[2]
    /\ IsSleep(7) /\ log[7].delay = 2

---------------------------------------------------------------------------
(* The classification of an error by the except clause of                   *)
(* _call_api_with_retry, applied to an invocation that is about to call     *)

\* words of the error messages: rate-limit words, network words, another
ClassifyTokens == {"429", "Quota", "too many requests", "10013", "11001", "Timeout", "400"}

ClassifyMessages == UNION {[1..n -> ClassifyTokens] : n \in 1..2}

\* attempts made before the classified one
MaxPrior == 2

\* what the attempts before the classified one raised: rate limits (a next
\* candidate) and network errors (a next attempt)
PriorErrors ==
    UNION {[1..n -> {<<"Quota", "exceeded">>, <<"Read", "Timeout">>}] : n \in 0..MaxPrior}

ErrorOutcome(msg) == [kind |-> "error", text |-> <<>>, msg |-> msg]

\* the invocation handles the error msg raised by its next call, and goes on
\* to its next call or to its end
Classify(mr, prior, msg) ==
    /\ cls = NoClass
    /\ LET before == RunAlone(NewRequest(GeminiObject, GEMINI_MODEL, mr),
                              [k \in 1..Len(prior) |-> ErrorOutcome(prior[k])])
       IN /\ AtCall(before)
          /\ cls' = [before |-> before, msg |-> msg,
                     after |-> RunAlone(before, <<ErrorOutcome(msg)>>)]
    /\ UNCHANGED <<retryVars, jsonVars, transVars, concVars, scan, config, storeVars, tempVars>>

ClassifyNext ==
    \E mr \in 1..MaxRetries, prior \in PriorErrors, msg \in ClassifyMessages :
        Classify(mr, prior, msg)

ClassifySpec == Init /\ [][ClassifyNext]_vars

HasRateLimitWord(msg) == Range(msg) \cap {"429", "Quota", "too many requests"} # {}

HasNetworkWord(msg) == Range(msg) \cap {"10013", "11001", "Timeout"} # {}

\* C25: an error whose message holds both a rate-limit word and a network
\* word is handled as rate-limited: the call is followed by no sleep and no
\* further attempt on its model; the invocation goes on to the first attempt
\* on the next candidate, or ends with the aggregate error after the last one.
C25_RateLimitCheckedFirst ==
    (cls # NoClass /\ HasRateLimitWord(cls.msg) /\ HasNetworkWord(cls.msg)) =>
        LET b == cls.before
            a == cls.after
        IN /\ a.log = Append(b.log, CallEvent(b.models_to_try[b.idx], ErrorOutcome(cls.msg)))
           /\ IF b.idx < Len(b.models_to_try)
              THEN /\ AtCall(a)
                   /\ a.idx = b.idx + 1
                   /\ a.attempt = 0
                   /\ a.retry_delay = 2
              ELSE /\ a.pc = "done"
                   /\ a.result = Raised(AggregateError(b.models_to_try))

\* a socket error code and 429 in one message, on the second of three
\* attempts: the next candidate is tried
C25_Witness ==
    /\ cls.msg = <<"10013", "429">>
    /\ cls.before.max_retries = 3
    /\ cls.before.attempt = 1
    /\ cls.before.idx = 1
    /\ cls.after.idx = 2
    /\ Len(cls.after.log) = 3

---------------------------------------------------------------------------
(* The envelope of gemini_transcribe *)

DeleteReturned == \E i \in TOps("delete") : tlog[i].ok

\* validation, upload, polling, the generation call and the delete all
\* completed without error
AllStepsCompleted ==
    /\ AudioInvalid(audio) = None
    /\ Uploaded
    /\ ~PollRaised
    /\ file_state = "ACTIVE"
    /\ TOps("invoke") # {}
    /\ pc = "done" /\ result.kind = "returned"
    /\ DeleteReturned

\* C27: gemini_transcribe returns success exactly when validation, upload,
\* polling, the generation call and the delete all completed without error;
\* success implies an empty error and the orchestrator's output as text,
\* failure implies an empty text.
C27_SuccessIffAllSteps ==
    tpc = "done" =>
        /\ tresult.success <=> AllStepsCompleted
        /\ tresult.success => (tresult.error = <<>> /\ tresult.text = result.value)
        /\ ~tresult.success => tresult.text = <<>>

\* the generation returned a text, the delete raised
C27_Witness ==
    /\ tpc = "done"
    /\ pc = "done" /\ result.kind = "returned" /\ result.value # <<>>
    /\ \E i \in TOps("delete") : ~tlog[i].ok
    /\ ~tresult.success
    /\ tresult.text = <<>>
    /\ tresult.error = <<"delete failed">>

---------------------------------------------------------------------------
(* The brace scan of generate_template_fields on texts with quoted strings *)

MaxScanLen == 6

ScanChars == {"{", "}", "\"", "a"}

ScanTexts == UNION {[1..n -> ScanChars] : n \in 0..MaxScanLen}

\* generate_template_fields from the stripped model output to json_text
ScanTemplate(t) ==
    /\ scan = NoScan
    /\ scan' = [text |-> Strip(t), ex |-> TemplateExtract(Strip(t))]
    /\ UNCHANGED <<retryVars, jsonVars, transVars, concVars, cls, config, storeVars, tempVars>>

ScanNext == \E t \in ScanTexts : ScanTemplate(t)

ScanSpec == Init /\ [][ScanNext]_vars

Scanned == scan # NoScan /\ HasBrace(scan.text)

\* position of the last character of the candidate
CandidateEnd == FirstBrace(scan.text) + Len(scan.ex.json_text) - 1

\* end of the JSON object that opens at the first "{", braces inside
\* strings not counted; 0 when there is none
ObjectEnd(t) == ScanBracesOutsideStrings(t, FirstBrace(t), 0)

Object(t) == SubSeq(t, FirstBrace(t), ObjectEnd(t))

\* C24: the scan counts every brace from the first "{" on, inside strings or
\* not; hence for a text whose first object contains a "}" inside a string
\* value, the candidate ends at that "}" and differs from the object.
C24_StringBraceEndsCandidate ==
    (/\ Scanned
     /\ ~InString(scan.text, FirstBrace(scan.text))
     /\ ObjectEnd(scan.text) # 0
     /\ \E k \in FirstBrace(scan.text)..ObjectEnd(scan.text) :
           scan.text[k] = "}" /\ InString(scan.text, k))
    => /\ scan.ex.ok
       /\ InString(scan.text, CandidateEnd)
       /\ scan.ex.json_text # Object(scan.text)

\* C24 as the scan has it: the candidate is the span from the first "{" to
\* the first position where all "{" minus all "}" are zero; when that
\* position is a "}" inside a string, the candidate is not the object.
C24_EveryBraceCounted ==
    Scanned =>
        /\ scan.ex.ok <=> ClosingPositions(scan.text) # {}
        /\ scan.ex.ok => scan.ex.json_text = BalancedSpan(scan.text)
        /\ (scan.ex.ok /\ InString(scan.text, CandidateEnd)) =>
              \/ ObjectEnd(scan.text) = 0
              \/ scan.ex.json_text # Object(scan.text)

\* the object {"}"} is cut after the brace in its string
C24_Witness ==
    /\ scan.text = <<"{", "\"", "}", "\"", "}">>
    /\ scan.ex.json_text = <<"{", "\"", "}">>
    /\ Object(scan.text) = scan.text

---------------------------------------------------------------------------
(* The temperature and top_p of a request.  Values are in hundredths. *)

TEMPERATURE == 20

TOP_P == 95

\* values a caller can pass: 0.0, 0.1, ..., 1.0
ParamValues == {v \in 0..100 : v % 10 = 0}

\* an optional argument: None, or the one-element sequence of its value
ParamArgs == {None} \cup {<<v>> : v \in ParamValues}

\* Python's "x or d": d when x is None or zero, x otherwise
Or(x, d) == IF x = None \/ x[1] = 0 THEN d ELSE x[1]

\* the GenerateContentConfig every remote call of a request is made with;
\* the arguments do not change during the request
BuildConfig(temperature, top_p) ==
    /\ ~config.built
    /\ config' = [temperature_arg |-> temperature, top_p_arg |-> top_p,
                  temperature |-> Or(temperature, TEMPERATURE),
                  top_p |-> Or(top_p, TOP_P),
                  built |-> TRUE]
    /\ UNCHANGED <<retryVars, jsonVars, transVars, concVars, cls, scan, storeVars, tempVars>>

ConfigNext == \E temperature \in ParamArgs, top_p \in ParamArgs : BuildConfig(temperature, top_p)

ConfigSpec == Init /\ [][ConfigNext]_vars

\* C23: the remote calls use exactly the supplied temperature and top_p,
\* the value 0 included; the defaults are used only when no override is
\* supplied.
C23_OverridesUsed ==
    config.built =>
        /\ config.temperature_arg # None => config.temperature = config.temperature_arg[1]
        /\ config.top_p_arg # None => config.top_p = config.top_p_arg[1]
        /\ config.temperature_arg = None => config.temperature = TEMPERATURE
        /\ config.top_p_arg = None => config.top_p = TOP_P

---------------------------------------------------------------------------
(* The template store (database.py) and create_template_from_document *)

MaxOps == 4

DefaultNames == {"general_soap_note", "cardiology_consultation"}

\* the fields of the default templates, first entry of each
DefaultFields(n) ==
    IF n = "general_soap_note"
    THEN [k \in {"patient_name"} |-> "Full name of the patient"]
    ELSE [k \in {"patient_info"} |-> "Name, age, gender, and contact information"]

\* names the callers pass: a default template and one of their own
TemplateNames == {"general_soap_note", "custom"}

\* field dictionaries the callers pass
InputFields == {[k \in {"history"} |-> "History of illness"],
                [k \in {"history", "plan"} |-> "Plan of care"]}

\* json.dumps of a dictionary of fields: its key/value pairs as text
Dumps(f) == {<<k, f[k]>> : k \in DOMAIN f}

\* json.loads of the stored text
Loads(j) == [k \in {p[1] : p \in j} |-> (CHOOSE p \in j : p[1] = k)[2]]

Row(n, f) == [name |-> n, fields |-> Dumps(f)]

RowsOf(rows, n) == {r \in rows : r.name = n}

\* INSERT OR IGNORE under UNIQUE(name)
InsertOrIgnore(rows, n, f) == IF RowsOf(rows, n) # {} THEN rows ELSE rows \cup {Row(n, f)}

InsertAlways(rows, n, f) == rows \cup {Row(n, f)}

\* INSERT ... ON CONFLICT(name) DO UPDATE SET fields = excluded.fields
Upsert(rows, n, f) == (rows \ RowsOf(rows, n)) \cup {Row(n, f)}

\* DELETE FROM templates WHERE name = ?
DeleteRows(rows, n) == rows \ RowsOf(rows, n)

RECURSIVE InsertDefaults(_, _)
InsertDefaults(rows, names) ==
    IF names = {} THEN rows
    ELSE LET n == CHOOSE x \in names : TRUE
         IN InsertDefaults(InsertOrIgnore(rows, n, DefaultFields(n)), names \ {n})

\* a call on the store as slog records it
StoreCall(op, n, f, ok) == [op |-> op, name |-> n, fields |-> f, ok |-> ok]

\* init_database has run (it runs when the module is imported)
Initialized == \E i \in 1..Len(slog) : slog[i].op = "init" /\ slog[i].ok

DbOutcomes == {"ok", "raise"}

\* init_database: the table, then the default templates that are missing;
\* a database error leaves the function as an exception
InitDatabase(db) ==
    /\ Len(slog) < MaxOps
    /\ store' = IF db = "raise" THEN store ELSE InsertDefaults(store, DefaultNames)
    /\ slog' = Append(slog, StoreCall("init", "", EmptyFields, db = "ok"))
    /\ resp' = [NoResponse EXCEPT !.op = "init", !.before = store, !.raised = (db = "raise")]
    /\ UNCHANGED <<retryVars, jsonVars, transVars, concVars, pureVars, tempVars>>

\* save_template: True after the commit, False on any exception
SaveTemplate(n, f, db) ==
    /\ Initialized
    /\ Len(slog) < MaxOps
    /\ store' = IF db = "raise" THEN store ELSE Upsert(store, n, f)
    /\ slog' = Append(slog, StoreCall("save", n, f, db = "ok"))
    /\ resp' = [NoResponse EXCEPT !.op = "save", !.name = n, !.before = store,
                                  !.raised = (db = "raise"), !.returned = (db = "ok")]
    /\ UNCHANGED <<retryVars, jsonVars, transVars, concVars, pureVars, tempVars>>

\* delete_template: rowcount > 0 after the commit, False on any exception
DeleteTemplate(n, db) ==
    /\ Initialized
    /\ Len(slog) < MaxOps
    /\ store' = IF db = "raise" THEN store ELSE DeleteRows(store, n)
    /\ slog' = Append(slog, StoreCall("delete", n, EmptyFields, db = "ok"))
    /\ resp' = [NoResponse EXCEPT !.op = "delete", !.name = n, !.before = store,
                                  !.raised = (db = "raise"),
                                  !.returned = (db = "ok" /\ RowsOf(store, n) # {})]
    /\ UNCHANGED <<retryVars, jsonVars, transVars, concVars, pureVars, tempVars>>

\* get_template: the parsed fields of the row, None without a row or on any
\* exception
GetTemplate(n, db) ==
    /\ Initialized
    /\ resp' = IF db = "ok" /\ RowsOf(store, n) # {}
               THEN [NoResponse EXCEPT !.op = "get", !.name = n, !.before = store,
                                       !.returned = TRUE,
                                       !.fields = Loads((CHOOSE r \in RowsOf(store, n) : TRUE).fields)]
               ELSE [NoResponse EXCEPT !.op = "get", !.name = n, !.before = store,
                                       !.raised = (db = "raise")]
    /\ UNCHANGED <<store, slog>>
    /\ UNCHANGED <<retryVars, jsonVars, transVars, concVars, pureVars, tempVars>>

\* results of extract_text and of generate_template_fields
StepFailure(msg) == [success |-> FALSE, fields |-> EmptyFields, error |-> msg]

StepSuccess(f) == [success |-> TRUE, fields |-> f, error |-> ""]

ExtractResults == {StepFailure("File not found"), StepSuccess(EmptyFields)}

FieldsResults == {StepFailure("No JSON found in model output")} \cup {StepSuccess(f) : f \in InputFields}

SaveAfterExtraction(extract_result, fields_result) == extract_result.success

\* db_save_template is reached: neither earlier step raised the ValueError
SaveReached(extract_result, fields_result) ==
    extract_result.success /\ fields_result.success

\* create_template_from_document
CreateTemplateFromDocument(n, extract_result, fields_result, db) ==
    /\ Initialized
    /\ Len(slog) < MaxOps
    /\ LET generated == extract_result.success
           saving == SaveReached(extract_result, fields_result)
           steps == <<"extract">> \o (IF generated THEN <<"generate">> ELSE <<>>)
                                  \o (IF saving THEN <<"save">> ELSE <<>>)
           success == extract_result.success /\ fields_result.success /\ db = "ok"
           error == IF ~extract_result.success THEN extract_result.error
                    ELSE IF ~fields_result.success THEN fields_result.error
                    ELSE IF db # "ok" THEN "Failed to save template to database"
                    ELSE ""
       IN /\ store' = IF saving /\ db = "ok" THEN Upsert(store, n, fields_result.fields)
                      ELSE store
          /\ slog' = IF saving
                     THEN Append(slog, StoreCall("save", n, fields_result.fields, db = "ok"))
                     ELSE slog
          /\ resp' = [NoResponse EXCEPT !.op = "create",
                                        !.name = IF success THEN n ELSE "",
                                        !.before = store,
                                        !.returned = success,
                                        !.fields = IF success THEN fields_result.fields ELSE EmptyFields,
                                        !.args = <<extract_result, fields_result>>,
                                        !.steps = steps,
                                        !.error = error]
    /\ UNCHANGED <<retryVars, jsonVars, transVars, concVars, pureVars, tempVars>>

StoreNext ==
    \/ \E db \in DbOutcomes : InitDatabase(db)
    \/ \E n \in TemplateNames, f \in InputFields, db \in DbOutcomes : SaveTemplate(n, f, db)
    \/ \E n \in TemplateNames, db \in DbOutcomes : DeleteTemplate(n, db)
    \/ \E n \in TemplateNames, db \in DbOutcomes : GetTemplate(n, db)
    \/ \E n \in TemplateNames, er \in ExtractResults, fr \in FieldsResults, db \in DbOutcomes :
            CreateTemplateFromDocument(n, er, fr, db)

StoreSpec == Init /\ [][StoreNext]_vars

---------------------------------------------------------------------------
(* Properties of the template store *)

CreateOrder == <<"extract", "generate", "save">>

\* C28: create_template_from_document runs extraction, generation and the
\* save in that order, the save only if both earlier steps succeeded; a
\* failure leaves the store unchanged, a success leaves exactly the returned
\* fields under the given name.
C28_CreateSavesLast ==
    resp.op = "create" =>
        /\ resp.steps = SubSeq(CreateOrder, 1, Len(resp.steps))
        /\ (Len(resp.steps) = 3) => (resp.args[1].success /\ resp.args[2].success)
        /\ ~resp.returned => store = resp.before
        /\ resp.returned =>
              /\ Len(resp.steps) = 3
              /\ RowsOf(store, resp.name) = {Row(resp.name, resp.fields)}
              /\ \A r \in RowsOf(store, resp.name) : Loads(r.fields) = resp.fields
              /\ DeleteRows(store, resp.name) = DeleteRows(resp.before, resp.name)

\* the save was reached and failed: the store is as it was
C28_Witness ==
    /\ resp.op = "create"
    /\ resp.steps = CreateOrder
    /\ ~resp.returned
    /\ resp.error = "Failed to save template to database"
    /\ RowsOf(store, "custom") # {}
    /\ store = resp.before

OnePerName == \A r1, r2 \in store : r1.name = r2.name => r1 = r2

\* the last successful save_template(n, f) that no delete_template(n)
\* followed, 0 when there is none
LastSave(n) ==
    LET saves == {i \in 1..Len(slog) :
                    /\ slog[i].op = "save" /\ slog[i].name = n /\ slog[i].ok
                    /\ \A j \in (i + 1)..Len(slog) :
                          ~(slog[j].op = "delete" /\ slog[j].name = n)}
    IN IF saves = {} THEN 0 ELSE CHOOSE i \in saves : \A k \in saves : k <= i

RECURSIVE Template(_, _)
Template(n, k) ==
    IF k = 0 THEN None
    ELSE LET call == slog[k]
             prev == Template(n, k - 1)
         IN IF ~call.ok THEN prev
            ELSE IF call.op = "save" /\ call.name = n THEN <<call.fields>>
            ELSE IF call.op = "delete" /\ call.name = n THEN None
            ELSE IF call.op = "init" /\ n \in DefaultNames /\ prev = None
                 THEN <<DefaultFields(n)>>
            ELSE prev

---------------------------------------------------------------------------
(* The temporary audio file of /transcribe-and-clean (main.py) *)

MaxSecond == 2

Suffixes == {".wav", ".mp3"}

\* the content of the file at a path, 0 when there is no file
FileAt(path) == IF \E f \in files : f.path = path
                THEN (CHOOSE f \in files : f.path = path).content
                ELSE 0

\* the handler of r is between its first and its last statement
InFlight(r) == treq[r].pc \in {"written", "transcribed"}

HandlersInterleave(r) == FALSE

\* transcribe_and_clean_audio is a coroutine without an await, and
\* uvicorn.run starts one event loop: while the handler of one request runs,
\* the handler of no other request starts
LoopBusy(r) == \E q \in Uploads \ {r} : InFlight(q)

\* the request arrives; its handler is scheduled on the event loop
Arrive(r, suffix) ==
    /\ treq[r].pc = "idle"
    /\ treq' = [treq EXCEPT ![r] = [NoUpload EXCEPT !.pc = "pending", !.suffix = suffix]]
    /\ UNCHANGED <<clock, files>>
    /\ UNCHANGED <<retryVars, jsonVars, transVars, concVars, pureVars, storeVars>>

\* the seconds pass, also while a handler runs
Tick ==
    /\ clock < MaxSecond
    /\ clock' = clock + 1
    /\ UNCHANGED <<files, treq>>
    /\ UNCHANGED <<retryVars, jsonVars, transVars, concVars, pureVars, storeVars>>

\* temp_audio = f"temp_audio_{int(time.time())}{suffix}"; open(temp_audio,
\* "wb") and copyfileobj: the file holds the upload of r
WriteTempAudio(r) ==
    /\ treq[r].pc = "pending"
    /\ ~LoopBusy(r)
    /\ LET temp_audio == <<clock, treq[r].suffix>>
       IN /\ files' = {f \in files : f.path # temp_audio}
                        \cup {[path |-> temp_audio, content |-> r]}
          /\ treq' = [treq EXCEPT ![r].pc = "written", ![r].temp_audio = temp_audio]
    /\ UNCHANGED clock
    /\ UNCHANGED <<retryVars, jsonVars, transVars, concVars, pureVars, storeVars>>

\* transcribe_audio(temp_audio): what is at the path is transcribed
TranscribeTempAudio(r) ==
    /\ treq[r].pc = "written"
    /\ treq' = [treq EXCEPT ![r].pc = "transcribed",
                            ![r].transcribed = FileAt(treq[r].temp_audio)]
    /\ UNCHANGED <<clock, files>>
    /\ UNCHANGED <<retryVars, jsonVars, transVars, concVars, pureVars, storeVars>>

\* finally: os.remove(temp_audio) if it exists
RemoveTempAudio(r) ==
    /\ treq[r].pc = "transcribed"
    /\ files' = {f \in files : f.path # treq[r].temp_audio}
    /\ treq' = [treq EXCEPT ![r].pc = "done"]
    /\ UNCHANGED clock
    /\ UNCHANGED <<retryVars, jsonVars, transVars, concVars, pureVars, storeVars>>

TempNext ==
    \/ \E r \in Uploads, suffix \in Suffixes : Arrive(r, suffix)
    \/ Tick
    \/ \E r \in Uploads : WriteTempAudio(r)
    \/ \E r \in Uploads : TranscribeTempAudio(r)
    \/ \E r \in Uploads : RemoveTempAudio(r)

TempSpec == Init /\ [][TempNext]_vars

====
